---- MODULE Spec2Model ----
(***************************************************************************)
(* Model of craft_store/creds.py: serialisation and deserialisation of     *)
(* Candid and Ubuntu One credentials.                                      *)
(*                                                                         *)
(* A Python str is a sequence of one-character strings.  A Python value    *)
(* (what json.loads returns, what a model's .dict() returns) is a record   *)
(*   [k |-> kind, s |-> characters, e |-> members]                         *)
(* with kind in {"str","int","true","false","null","obj","arr"}; a dict    *)
(* is an insertion-ordered sequence of [key, val] members with unique      *)
(* keys, a list is a sequence of members with empty keys.                  *)
(***************************************************************************)
EXTENDS Integers, Sequences, FiniteSets, TLC

(* ---------------------------------------------------------------------- *)
(* Bounds of the model                                                    *)
(* ---------------------------------------------------------------------- *)
MaxRawLen == 3
MaxStrLen == 2
MaxPairLen == 1
MaxTrips == 2

(* ---------------------------------------------------------------------- *)
(* Python values                                                          *)
(* ---------------------------------------------------------------------- *)
JStr(s) == [k |-> "str", s |-> s, e |-> <<>>]
JInt(ds) == [k |-> "int", s |-> ds, e |-> <<>>]
JTrue == [k |-> "true", s |-> <<>>, e |-> <<>>]
JFalse == [k |-> "false", s |-> <<>>, e |-> <<>>]
JNull == [k |-> "null", s |-> <<>>, e |-> <<>>]
Mem(key, val) == [key |-> key, val |-> val]
JObj(ms) == [k |-> "obj", s |-> <<>>, e |-> ms]
JArr(xs) == [k |-> "arr", s |-> <<>>, e |-> [i \in 1..Len(xs) |-> Mem(<<>>, xs[i])]]

(* dict operations: key in d, d[key], d[key] = val *)
DictHas(ms, key) == \E i \in 1..Len(ms) : ms[i].key = key
DictGet(ms, key) == ms[CHOOSE i \in 1..Len(ms) : ms[i].key = key].val
DictSet(ms, key, val) ==
    IF DictHas(ms, key)
    THEN [i \in 1..Len(ms) |-> IF ms[i].key = key THEN Mem(key, val) ELSE ms[i]]
    ELSE Append(ms, Mem(key, val))

RECURSIVE DictOfItems(_, _)
(* dict(items): later items overwrite earlier ones with the same key *)
DictOfItems(items, acc) ==
    IF items = <<>> THEN acc
    ELSE DictOfItems(Tail(items), DictSet(acc, Head(items).key, Head(items).val))

(* ---------------------------------------------------------------------- *)
(* json.dumps with the default separators ", " and ": "                   *)
(* ---------------------------------------------------------------------- *)
EscapeChar(c) ==
    IF c = "\"" THEN <<"\\", "\"">>
    ELSE IF c = "\\" THEN <<"\\", "\\">>
    ELSE IF c = "\n" THEN <<"\\", "n">>
    ELSE IF c = "\r" THEN <<"\\", "r">>
    ELSE IF c = "\t" THEN <<"\\", "t">>
    ELSE <<c>>

RECURSIVE Flatten(_)
(* the concatenation of a sequence of sequences *)
Flatten(ss) ==
    IF Len(ss) = 0 THEN <<>>
    ELSE IF Len(ss) = 1 THEN ss[1]
    ELSE Flatten(SubSeq(ss, 1, Len(ss) \div 2))
         \o Flatten(SubSeq(ss, Len(ss) \div 2 + 1, Len(ss)))

EscapeChars(s) == Flatten([i \in 1..Len(s) |-> EscapeChar(s[i])])

EncodeString(s) == <<"\"">> \o EscapeChars(s) \o <<"\"">>

RECURSIVE EncodeWith(_, _, _), EncodeMembers(_, _, _, _), EncodeElements(_, _, _)
EncodeMembers(ms, i, itemSep, keySep) ==
    IF i > Len(ms) THEN <<>>
    ELSE (IF i > 1 THEN itemSep ELSE <<>>)
         \o EncodeString(ms[i].key) \o keySep
         \o EncodeWith(ms[i].val, itemSep, keySep)
         \o EncodeMembers(ms, i + 1, itemSep, keySep)
EncodeElements(ms, i, itemSep) ==
    IF i > Len(ms) THEN <<>>
    ELSE (IF i > 1 THEN itemSep ELSE <<>>)
         \o EncodeWith(ms[i].val, itemSep, <<":", " ">>)
         \o EncodeElements(ms, i + 1, itemSep)
EncodeWith(j, itemSep, keySep) ==
    CASE j.k = "str" -> EncodeString(j.s)
      [] j.k = "int" -> j.s
      [] j.k = "true" -> <<"t", "r", "u", "e">>
      [] j.k = "false" -> <<"f", "a", "l", "s", "e">>
      [] j.k = "null" -> <<"n", "u", "l", "l">>
      [] j.k = "obj" -> <<"{">> \o EncodeMembers(j.e, 1, itemSep, keySep) \o <<"}">>
      [] j.k = "arr" -> <<"[">> \o EncodeElements(j.e, 1, itemSep) \o <<"]">>

json_dumps(j) == EncodeWith(j, <<",", " ">>, <<":", " ">>)
json_dumps_compact(j) == EncodeWith(j, <<",">>, <<":">>)

(* ---------------------------------------------------------------------- *)
(* json.loads: a recursive-descent decoder over the characters            *)
(* ---------------------------------------------------------------------- *)
Digits == {"0", "1", "2", "3", "4", "5", "6", "7", "8", "9"}
IsWS(c) == c \in {" ", "\t", "\n", "\r"}
Fail == [ok |-> FALSE, val |-> JNull, pos |-> 0]
Ok(v, p) == [ok |-> TRUE, val |-> v, pos |-> p]

RECURSIVE SkipWS(_, _)
SkipWS(s, i) == IF i <= Len(s) /\ IsWS(s[i]) THEN SkipWS(s, i + 1) ELSE i

HasAt(s, i, lit) ==
    /\ i + Len(lit) - 1 <= Len(s)
    /\ \A n \in 1..Len(lit) : s[i + n - 1] = lit[n]

RECURSIVE Backslashes(_, _, _)
(* the number of consecutive backslashes just before position p, counted *)
(* no further back than position lo                                       *)
Backslashes(s, lo, p) ==
    IF p - 1 >= lo /\ s[p - 1] = "\\" THEN 1 + Backslashes(s, lo, p - 1) ELSE 0

Unescape(c) ==
    IF c = "n" THEN "\n" ELSE IF c = "r" THEN "\r" ELSE IF c = "t" THEN "\t" ELSE c

(* the first quote at or after position j, Len(s) + 1 if there is none *)
NextQuote(s, j) ==
    IF \E q \in j..Len(s) : s[q] = "\""
    THEN CHOOSE q \in j..Len(s) : s[q] = "\"" /\ \A r \in j..(q - 1) : s[r] # "\""
    ELSE Len(s) + 1

RECURSIVE ClosingQuote(_, _, _)
(* the first quote at or after position j that no backslash escapes; q is *)
(* the next quote                                                         *)
ClosingQuoteFrom(s, i, q) ==
    IF q > Len(s) THEN q
    ELSE IF Backslashes(s, i, q) % 2 = 0 THEN q
    ELSE ClosingQuote(s, i, q + 1)
ClosingQuote(s, i, j) == ClosingQuoteFrom(s, i, NextQuote(s, j))

(* the characters of a string literal: position p of the text is an       *)
(* escaped character, the backslash that escapes the next one, or itself  *)
Escaped(s, i, p) == Backslashes(s, i, p) % 2 = 1
StringPiece(s, i, p) ==
    IF Escaped(s, i, p) THEN <<Unescape(s[p])>>
    ELSE IF s[p] = "\\" THEN <<>>
    ELSE <<s[p]>>
BadStringChar(s, i, p) ==
    IF Escaped(s, i, p) THEN s[p] \notin {"\"", "\\", "/", "n", "r", "t"}
    ELSE s[p] \in {"\t", "\n", "\r"}

(* the string literal between position i and its closing quote at end *)
StringUpTo(s, i, end) ==
    IF end > Len(s) \/ \E p \in i..(end - 1) : BadStringChar(s, i, p) THEN Fail
    ELSE Ok(JStr(Flatten([n \in 1..(end - i) |-> StringPiece(s, i, i + n - 1)])), end + 1)

(* s[i] is the first character after the opening quote *)
ScanString(s, i) == StringUpTo(s, i, ClosingQuote(s, i, i))

RECURSIVE ScanDigits(_, _)
ScanDigits(s, i) == IF i <= Len(s) /\ s[i] \in Digits THEN ScanDigits(s, i + 1) ELSE i

(* an integer: "0", or a non-zero digit followed by digits up to j - 1 *)
NumberUpTo(s, i, j) == Ok(JInt(SubSeq(s, i, j - 1)), j)
ScanNumber(s, i) ==
    IF s[i] = "0" THEN Ok(JInt(<<"0">>), i + 1) ELSE NumberUpTo(s, i, ScanDigits(s, i))

RECURSIVE ScanValue(_, _), ScanMembers(_, _, _), ScanElements(_, _, _)

(* after a member or an element, at position n: the end or a comma *)
AfterMember(s, dct, n) ==
    IF n > Len(s) THEN Fail
    ELSE IF s[n] = "}" THEN Ok(JObj(dct), n + 1)
    ELSE IF s[n] = "," THEN ScanMembers(s, SkipWS(s, n + 1), dct)
    ELSE Fail
AfterElement(s, lst, n) ==
    IF n > Len(s) THEN Fail
    ELSE IF s[n] = "]" THEN Ok([k |-> "arr", s |-> <<>>, e |-> lst], n + 1)
    ELSE IF s[n] = "," THEN ScanElements(s, SkipWS(s, n + 1), lst)
    ELSE Fail

(* a member's value v, scanned after the colon *)
MemberValue(s, acc, name, v) ==
    IF ~v.ok THEN Fail ELSE AfterMember(s, DictSet(acc, name, v.val), SkipWS(s, v.pos))
(* the colon at position c after a member's name *)
MemberColon(s, acc, name, c) ==
    IF c > Len(s) \/ s[c] # ":" THEN Fail
    ELSE MemberValue(s, acc, name, ScanValue(s, SkipWS(s, c + 1)))
(* a member's name, scanned as a string *)
MemberName(s, acc, key) ==
    IF ~key.ok THEN Fail ELSE MemberColon(s, acc, key.val.s, SkipWS(s, key.pos))

(* s[i] must be the opening quote of the next member's name *)
ScanMembers(s, i, acc) ==
    IF i > Len(s) \/ s[i] # "\"" THEN Fail ELSE MemberName(s, acc, ScanString(s, i + 1))

ElementValue(s, acc, v) ==
    IF ~v.ok THEN Fail ELSE AfterElement(s, Append(acc, Mem(<<>>, v.val)), SkipWS(s, v.pos))
ScanElements(s, i, acc) == ElementValue(s, acc, ScanValue(s, i))

(* after "{" and after "[", at the first position j that is not space *)
ObjectFrom(s, j) ==
    IF j <= Len(s) /\ s[j] = "}" THEN Ok(JObj(<<>>), j + 1) ELSE ScanMembers(s, j, <<>>)
ArrayFrom(s, j) ==
    IF j <= Len(s) /\ s[j] = "]" THEN Ok(JArr(<<>>), j + 1) ELSE ScanElements(s, j, <<>>)

ScanValue(s, i) ==
    IF i > Len(s) THEN Fail
    ELSE IF s[i] = "\"" THEN ScanString(s, i + 1)
    ELSE IF s[i] = "{" THEN ObjectFrom(s, SkipWS(s, i + 1))
    ELSE IF s[i] = "[" THEN ArrayFrom(s, SkipWS(s, i + 1))
    ELSE IF HasAt(s, i, <<"n", "u", "l", "l">>) THEN Ok(JNull, i + 4)
    ELSE IF HasAt(s, i, <<"t", "r", "u", "e">>) THEN Ok(JTrue, i + 4)
    ELSE IF HasAt(s, i, <<"f", "a", "l", "s", "e">>) THEN Ok(JFalse, i + 5)
    ELSE IF s[i] \in Digits THEN ScanNumber(s, i)
    ELSE Fail

(* the whole text must be one value, spaces around it allowed *)
WholeText(s, v) == IF v.ok /\ SkipWS(s, v.pos) = Len(s) + 1 THEN v ELSE Fail

(* json.loads(s): ok = FALSE stands for json.JSONDecodeError *)
json_loads(s) == WholeText(s, ScanValue(s, SkipWS(s, 1)))

(* ---------------------------------------------------------------------- *)
(* Names: the JSON keys (field aliases), the attribute names, the tags    *)
(* ---------------------------------------------------------------------- *)
K_t == <<"t">>
K_v == <<"v">>
K_r == <<"r">>
K_d == <<"d">>
N_token_type == <<"t", "o", "k", "e", "n", "_", "t", "y", "p", "e">>
N_value == <<"v", "a", "l", "u", "e">>
N_root == <<"r", "o", "o", "t">>
N_discharge == <<"d", "i", "s", "c", "h", "a", "r", "g", "e">>
TagCandid == <<"m", "a", "c", "a", "r", "o", "o", "n">>
TagU1 == <<"u", "1", "-", "m", "a", "c", "a", "r", "o", "o", "n">>

(* ---------------------------------------------------------------------- *)
(* pydantic field validation                                              *)
(* ---------------------------------------------------------------------- *)
Invalid == [ok |-> FALSE, val |-> JNull]
Valid(v) == [ok |-> TRUE, val |-> v]

(* a `str` field: a str is kept, an int (bool included) is converted with *)
(* str(), anything else is an error                                       *)
str_validator(v) ==
    CASE v.k = "str" -> Valid(v)
      [] v.k = "int" -> Valid(JStr(v.s))
      [] v.k = "true" -> Valid(JStr(<<"T", "r", "u", "e">>))
      [] v.k = "false" -> Valid(JStr(<<"F", "a", "l", "s", "e">>))
      [] OTHER -> Invalid

(* mutant: the tag is an unconstrained str instead of a Literal *)
token_type_field_any(data, tag) ==
    IF DictHas(data, K_t) THEN str_validator(DictGet(data, K_t)) ELSE Valid(JStr(tag))

(* a `Literal[tag]` field with default tag, populated by alias "t" *)
token_type_field(data, tag) ==
    IF DictHas(data, K_t)
    THEN (IF DictGet(data, K_t) = JStr(tag) THEN Valid(JStr(tag)) ELSE Invalid)
    ELSE Valid(JStr(tag))

(* mutant: the field defaults to the empty string instead of being       *)
(* required                                                               *)
required_str_field_optional(data, alias) ==
    IF DictHas(data, alias) THEN str_validator(DictGet(data, alias)) ELSE Valid(JStr(<<>>))

(* a required `str` field populated by its alias *)
required_str_field(data, alias) ==
    IF DictHas(data, alias) THEN str_validator(DictGet(data, alias)) ELSE Invalid

(* the dict of a model instance, by alias: every item of __dict__ in      *)
(* order, a field name replaced by its alias, any other name kept         *)
AliasItems(dct, fields) ==
    [i \in 1..Len(dct) |->
        Mem(IF DictHas(fields, dct[i].key) THEN DictGet(fields, dct[i].key).s
            ELSE dct[i].key,
            dct[i].val)]

(* an instance of class cls whose __dict__ holds the validated fields, or *)
(* pydantic.ValidationError when a field is invalid                       *)
Instance(cls, name1, f1, name2, f2) ==
    IF f1.ok /\ f2.ok
    THEN Valid([k |-> cls, s |-> <<>>, e |-> <<Mem(name1, f1.val), Mem(name2, f2.val)>>])
    ELSE Invalid

(* ---------------------------------------------------------------------- *)
(* class CandidModel                                                      *)
(* ---------------------------------------------------------------------- *)
CandidFields == <<Mem(N_token_type, JStr(K_t)), Mem(N_value, JStr(K_v))>>

(* construction from a dict of keyword arguments *)
CandidModel(data) ==
    Instance("CandidModel", N_token_type, token_type_field(data, TagCandid),
             N_value, required_str_field(data, K_v))

CandidModel_marshal(self) == JObj(DictOfItems(AliasItems(self.e, CandidFields), <<>>))

CandidModel_unmarshal(data) == CandidModel(data)

(* ---------------------------------------------------------------------- *)
(* class UbuntuOneMacaroons                                               *)
(* ---------------------------------------------------------------------- *)
MacaroonsFields == <<Mem(N_root, JStr(K_r)), Mem(N_discharge, JStr(K_d))>>

UbuntuOneMacaroons(data) ==
    Instance("UbuntuOneMacaroons", N_root, required_str_field(data, K_r),
             N_discharge, required_str_field(data, K_d))

(* the attributes of a pair *)
RootOf(p) == DictGet(p.e, N_root).s
DischargeOf(p) == DictGet(p.e, N_discharge).s

(* self.copy(update={"d": discharge}): the copy's __dict__ is the         *)
(* original's items updated with the given names                          *)
with_discharge(self, discharge) ==
    [k |-> "UbuntuOneMacaroons", s |-> <<>>, e |-> DictSet(self.e, K_d, JStr(discharge))]

Macaroons_dict(self) == JObj(DictOfItems(AliasItems(self.e, MacaroonsFields), <<>>))

(* dict(value) for a value that is neither a dict nor a model: a list of  *)
(* two-element lists or two-character strings converts, the rest do not   *)
PairItem(x) ==
    CASE x.k = "arr" /\ Len(x.e) = 2 /\ x.e[1].val.k = "str" ->
            Valid(JObj(<<Mem(x.e[1].val.s, x.e[2].val)>>))
      [] x.k = "str" /\ Len(x.s) = 2 ->
            Valid(JObj(<<Mem(<<x.s[1]>>, JStr(<<x.s[2]>>))>>))
      [] OTHER -> Invalid

PairItems(items) ==
    IF \A i \in 1..Len(items) : items[i].ok
    THEN Valid(JObj(DictOfItems([i \in 1..Len(items) |-> items[i].val.e[1]], <<>>)))
    ELSE Invalid

dict_of(value) ==
    CASE value.k = "arr" -> PairItems([i \in 1..Len(value.e) |-> PairItem(value.e[i].val)])
      [] value.k = "str" /\ value.s = <<>> -> Valid(JObj(<<>>))
      [] OTHER -> Invalid

Macaroons_from(d) == IF d.ok THEN UbuntuOneMacaroons(d.val.e) ELSE Invalid

(* validation of a field of type UbuntuOneMacaroons *)
Macaroons_validate(value) ==
    CASE value.k = "UbuntuOneMacaroons" -> Valid(value)
      [] value.k = "null" -> Invalid
      [] value.k = "obj" -> Macaroons_from(Valid(value))
      [] OTHER -> Macaroons_from(dict_of(value))

(* ---------------------------------------------------------------------- *)
(* class UbuntuOneModel                                                   *)
(* ---------------------------------------------------------------------- *)
U1Fields == <<Mem(N_token_type, JStr(K_t)), Mem(N_value, JStr(K_v))>>

UbuntuOneModel(data) ==
    Instance("UbuntuOneModel", N_token_type, token_type_field(data, TagU1),
             N_value,
             IF DictHas(data, K_v) THEN Macaroons_validate(DictGet(data, K_v)) ELSE Invalid)

UbuntuOneModel_marshal(self) ==
    JObj(DictOfItems(
        AliasItems([i \in 1..Len(self.e) |->
                       Mem(self.e[i].key,
                           IF self.e[i].val.k = "UbuntuOneMacaroons"
                           THEN Macaroons_dict(self.e[i].val) ELSE self.e[i].val)],
                   U1Fields), <<>>))

UbuntuOneModel_unmarshal(data) == UbuntuOneModel(data)

(* ---------------------------------------------------------------------- *)
(* The four functions of the module                                       *)
(* ---------------------------------------------------------------------- *)
Returned(v) == [status |-> "ok", value |-> v]
Raised(err) == [status |-> err, value |-> JNull]

(* `"t" in creds`: key of a dict, element of a list, substring of a str;  *)
(* any other value is not iterable                                        *)
contains_t(creds) ==
    CASE creds.k = "obj" -> IF DictHas(creds.e, K_t) THEN "True" ELSE "False"
      [] creds.k = "arr" ->
            IF \E i \in 1..Len(creds.e) : creds.e[i].val = JStr(K_t) THEN "True" ELSE "False"
      [] creds.k = "str" ->
            IF \E i \in 1..Len(creds.s) : creds.s[i] = "t" THEN "True" ELSE "False"
      [] OTHER -> "TypeError"

(* return model.value, or raise CredentialsNotParseable from the          *)
(* ValidationError                                                        *)
value_of(model) ==
    IF model.ok THEN Returned(DictGet(model.val.e, N_value))
    ELSE Raised("CredentialsNotParseable")

marshal_candid_credentials(candid_creds) ==
    json_dumps(CandidModel_marshal(CandidModel(<<Mem(K_v, JStr(candid_creds))>>).val))

(* the try block around CandidModel.unmarshal(data): data that is not a   *)
(* mapping cannot be passed as keyword arguments                          *)
candid_validated(data) ==
    IF data.k # "obj" THEN Raised("TypeError") ELSE value_of(CandidModel_unmarshal(data.e))

(* mutant: case (3) is an error, as it is for Ubuntu One *)
candid_opaque_rejected(marshalled_creds) == Raised("CredentialsNotParseable")

(* case (3): the text is not JSON *)
candid_opaque(marshalled_creds) ==
    candid_validated(JObj(<<Mem(K_v, JStr(marshalled_creds))>>))

(* mutant: case (2) takes the parsed dict instead of the stored text *)
candid_untagged_parsed(marshalled_creds, creds) == candid_validated(creds)

(* case (2): no "t" in the decoded value *)
candid_untagged(marshalled_creds, creds) ==
    candid_validated(JObj(<<Mem(K_v, JStr(marshalled_creds))>>))

(* the else branch of the decoding: has_t is `"t" in creds` *)
candid_decoded(marshalled_creds, creds, has_t) ==
    IF has_t = "TypeError" THEN Raised("TypeError")
    ELSE IF has_t = "True" THEN candid_validated(creds)
    ELSE candid_untagged(marshalled_creds, creds)

candid_loaded(marshalled_creds, loaded) ==
    IF ~loaded.ok THEN candid_opaque(marshalled_creds)
    ELSE candid_decoded(marshalled_creds, loaded.val, contains_t(loaded.val))

unmarshal_candid_credentials(marshalled_creds) ==
    candid_loaded(marshalled_creds, json_loads(marshalled_creds))

marshal_u1_credentials(u1_creds) ==
    json_dumps(UbuntuOneModel_marshal(UbuntuOneModel(<<Mem(K_v, u1_creds)>>).val))

u1_validated(data) ==
    IF data.k # "obj" THEN Raised("TypeError") ELSE value_of(UbuntuOneModel_unmarshal(data.e))

(* mutant: json.JSONDecodeError is not caught *)
u1_not_json_uncaught(marshalled_creds) == Raised("JSONDecodeError")

(* case (3): the text is not JSON *)
u1_not_json(marshalled_creds) == Raised("CredentialsNotParseable")

(* mutant: case (2) takes the stored text, as the Candid function does *)
u1_untagged_text(marshalled_creds, creds) ==
    u1_validated(JObj(<<Mem(K_v, JStr(marshalled_creds))>>))

(* case (2): no "t" in the decoded value *)
u1_untagged(marshalled_creds, creds) == u1_validated(JObj(<<Mem(K_v, creds)>>))

u1_decoded(marshalled_creds, creds, has_t) ==
    IF has_t = "TypeError" THEN Raised("TypeError")
    ELSE IF has_t = "True" THEN u1_validated(creds)
    ELSE u1_untagged(marshalled_creds, creds)

u1_loaded(marshalled_creds, loaded) ==
    IF ~loaded.ok THEN u1_not_json(marshalled_creds)
    ELSE u1_decoded(marshalled_creds, loaded.val, contains_t(loaded.val))

unmarshal_u1_credentials(marshalled_creds) ==
    u1_loaded(marshalled_creds, json_loads(marshalled_creds))

(* ---------------------------------------------------------------------- *)
(* Inputs                                                                 *)
(* ---------------------------------------------------------------------- *)
Strs(alphabet, n) == UNION {[1..len -> alphabet] : len \in 0..n}

(* texts that were never written by this module *)
RawAlphabet == {"{", "}", "\"", "t", "1", " "}
RawTexts == Strs(RawAlphabet, MaxRawLen)

(* credentials the caller may hold *)
CredChars == {"a", "t", "\"", "\\"}
CandidValues == {JStr(s) : s \in Strs(CredChars, MaxStrLen)}
PairChars == {"a", "\""}
PairStrs == Strs(PairChars, MaxPairLen)
NewPair(root, discharge) ==
    UbuntuOneMacaroons(<<Mem(K_r, JStr(root)), Mem(K_d, JStr(discharge))>>).val
Pairs == {NewPair(r, d) : r \in PairStrs, d \in PairStrs}
Discharges == {<<>>, <<"D", "2">>, <<"\\">>}

(* JSON documents: envelopes with or without t and v, objects with or     *)
(* without t, r and d, and documents that are not objects                 *)
Absent == [k |-> "absent", s |-> <<>>, e |-> <<>>]
Abc123 == <<"a", "b", "c", "1", "2", "3">>
TValues ==
    {Absent, JStr(TagCandid), JStr(TagU1), JStr(<<"x">>), JNull, JInt(<<"1">>)}
PayloadObjects ==
    { JObj(<<>>),
      JObj(<<Mem(K_r, JStr(<<"R">>))>>),
      JObj(<<Mem(K_d, JStr(<<"D">>))>>),
      JObj(<<Mem(K_r, JStr(<<"R">>)), Mem(K_d, JStr(<<"D">>))>>),
      JObj(<<Mem(K_d, JStr(<<"D">>)), Mem(K_r, JStr(<<"R", "\\">>)), Mem(<<"x">>, JNull)>>),
      JObj(<<Mem(K_r, JInt(<<"1", "0">>)), Mem(K_d, JStr(<<"D">>))>>),
      JObj(<<Mem(K_r, JStr(<<"R">>)), Mem(K_d, JNull)>>) }
VValues ==
    {Absent, JStr(Abc123), JStr(<<>>), JInt(<<"7">>), JNull, JTrue, JArr(<<>>),
     JArr(<<JArr(<<JStr(K_r), JStr(<<"R">>)>>), JStr(<<"d", "D">>)>>)}
    \cup PayloadObjects
RValues == {Absent, JStr(<<"R">>), JArr(<<>>)}
DValues == {Absent, JStr(<<"D", "1">>)}
Present(key, v) == IF v = Absent THEN <<>> ELSE <<Mem(key, v)>>
Envelopes == {JObj(Present(K_t, t) \o Present(K_v, v)) : t \in TValues, v \in VValues}
Legacy ==
    {JObj(Present(K_t, t) \o Present(K_r, r) \o Present(K_d, d) \o Present(K_v, v)) :
        t \in TValues, r \in RValues, d \in DValues, v \in {Absent, JStr(Abc123)}}
NonObjects ==
    {JTrue, JFalse, JNull, JInt(<<"4", "2">>), JStr(Abc123), JStr(<<"t", "o", "k">>),
     JArr(<<JStr(K_t)>>), JArr(<<JStr(K_v), JInt(<<"1">>)>>),
     JArr(<<JArr(<<JStr(K_r), JStr(<<"R">>)>>), JArr(<<JStr(K_d), JStr(<<"D">>)>>)>>)}
Documents == Envelopes \cup Legacy \cup NonObjects
StoredInputs ==
    RawTexts \cup {json_dumps(j) : j \in Documents}
             \cup {json_dumps_compact(j) : j \in Documents}
             \cup {Abc123, <<"n", "o", "t", " ", "j", "s", "o", "n">>}

(* ---------------------------------------------------------------------- *)
(* State: the text in the credential store, the credential the caller     *)
(* holds (a str, a UbuntuOneMacaroons or None), and the last call         *)
(* ---------------------------------------------------------------------- *)
VARIABLES stored, creds, op, status, arg, receiver, origin, chain

vars == <<stored, creds, op, status, arg, receiver, origin, chain>>

NoArg == [self |-> JNull, discharge |-> <<>>]
NoChain == [codec |-> "none", phase |-> "idle", trips |-> 0, orig |-> JNull]

Init ==
    /\ \/ stored \in StoredInputs /\ creds = JNull
       \/ stored = <<>> /\ creds \in CandidValues \cup Pairs
    /\ op = "none"
    /\ status = "ok"
    /\ arg = NoArg
    /\ receiver = JNull
    /\ origin = "input"
    /\ chain = NoChain

(* a marshal starts a chain of round trips, or goes on with the chain     *)
(* whose unmarshal has just returned                                      *)
ChainAfterMarshal(codec) ==
    IF chain.codec = codec /\ chain.phase = "unmarshalled" /\ chain.trips < MaxTrips
    THEN [chain EXCEPT !.phase = "marshalled"]
    ELSE [codec |-> codec, phase |-> "marshalled", trips |-> 0, orig |-> creds]
ChainAfterUnmarshal(codec) ==
    IF chain.codec = codec /\ chain.phase = "marshalled"
    THEN [chain EXCEPT !.phase = "unmarshalled", !.trips = chain.trips + 1]
    ELSE NoChain

MarshalCandid ==
    /\ creds.k = "str"
    /\ stored' = marshal_candid_credentials(creds.s)
    /\ op' = "marshal_candid_credentials"
    /\ status' = "ok"
    /\ origin' = "marshal_candid_credentials"
    /\ chain' = ChainAfterMarshal("candid")
    /\ UNCHANGED <<creds, arg, receiver>>

(* the caller keeps what unmarshal returned; r is the outcome of the call *)
Unmarshalled(name, codec, r) ==
    /\ op' = name
    /\ status' = r.status
    /\ creds' = IF r.status = "ok" THEN r.value ELSE creds
    /\ chain' = ChainAfterUnmarshal(codec)
    /\ UNCHANGED <<stored, arg, receiver, origin>>

UnmarshalCandid ==
    Unmarshalled("unmarshal_candid_credentials", "candid",
                 unmarshal_candid_credentials(stored))

MarshalU1 ==
    /\ creds.k = "UbuntuOneMacaroons"
    /\ stored' = marshal_u1_credentials(creds)
    /\ op' = "marshal_u1_credentials"
    /\ status' = "ok"
    /\ origin' = "marshal_u1_credentials"
    /\ chain' = ChainAfterMarshal("u1")
    /\ UNCHANGED <<creds, arg, receiver>>

UnmarshalU1 ==
    Unmarshalled("unmarshal_u1_credentials", "u1", unmarshal_u1_credentials(stored))

(* the caller replaces the pair it holds by pair.with_discharge(d); arg   *)
(* holds the pair and the discharge the method was called with, receiver  *)
(* is that pair as it is after the call: the copy leaves it alone         *)
WithDischarge(d) ==
    /\ creds.k = "UbuntuOneMacaroons"
    /\ creds' = with_discharge(creds, d)
    /\ receiver' = creds
    /\ arg' = [self |-> creds, discharge |-> d]
    /\ op' = "with_discharge"
    /\ status' = "ok"
    /\ chain' = NoChain
    /\ UNCHANGED <<stored, origin>>

Next ==
    \/ MarshalCandid
    \/ UnmarshalCandid
    \/ MarshalU1
    \/ UnmarshalU1
    \/ \E d \in Discharges : WithDischarge(d)

Spec == Init /\ [][Next]_vars

(* ---------------------------------------------------------------------- *)
(* Properties                                                             *)
(* ---------------------------------------------------------------------- *)
IsObject(l) == l.ok /\ l.val.k = "obj"
Has(l, key) == DictHas(l.val.e, key)
Get(l, key) == DictGet(l.val.e, key)
HasStr(l, key) == Has(l, key) /\ Get(l, key).k = "str"
AfterUnmarshalCandid == op = "unmarshal_candid_credentials"
AfterUnmarshalU1 == op = "unmarshal_u1_credentials"
NotParseable == status = "CredentialsNotParseable"
TextV_abc123 ==
    <<"{", "\"", "v", "\"", ":", " ", "\"", "a", "b", "c", "1", "2", "3", "\"", "}">>
TextNotJson == <<"n", "o", "t", " ", "j", "s", "o", "n">>

(* the case of C1: l is the decoded stored text *)
Untagged_v(l) == AfterUnmarshalCandid /\ IsObject(l) /\ ~Has(l, K_t) /\ HasStr(l, K_v)
ReturnsMember(l) == Untagged_v(l) => status = "ok" /\ creds = Get(l, K_v)

(* C1, as claimed: unmarshal_candid_credentials of a JSON object with no  *)
(* "t" key and a string member "v" = s returns s.                         *)
C1_ReturnsMember == ReturnsMember(json_loads(stored))

(* C1, amended: unmarshal_candid_credentials of a JSON object with no "t" *)
(* key and a string member "v" returns the stored text itself, unchanged. *)
C1_ReturnsStored ==
    Untagged_v(json_loads(stored)) => status = "ok" /\ creds = JStr(stored)
C1_Witness ==
    /\ Untagged_v(json_loads(stored))
    /\ stored = TextV_abc123
    /\ creds = JStr(TextV_abc123)

(* C2: whatever the input, each unmarshal function either returns a       *)
(* credential or raises CredentialsNotParseable; no other error escapes.  *)
C2_OnlyNotParseable ==
    AfterUnmarshalCandid \/ AfterUnmarshalU1 => status \in {"ok", "CredentialsNotParseable"}

(* C3: p.with_discharge(D2) returns a pair with p's root and discharge    *)
(* D2, and p keeps its root and discharge.                                *)
C3_DischargeReplaced ==
    op = "with_discharge" =>
        /\ RootOf(creds) = RootOf(arg.self)
        /\ DischargeOf(creds) = arg.discharge
        /\ RootOf(receiver) = RootOf(arg.self)
        /\ DischargeOf(receiver) = DischargeOf(arg.self)

(* C4: unmarshal(marshal(v)) = v for both codecs, also when marshal and   *)
(* unmarshal are applied again to the result.                             *)
C4_RoundTrip == chain.phase = "unmarshalled" => status = "ok" /\ creds = chain.orig

MismatchedTag(l, tag) == IsObject(l) /\ Has(l, K_t) /\ Get(l, K_t) # JStr(tag)

(* C5: a JSON object with a "t" key whose value is not the codec's own    *)
(* tag makes unmarshal raise CredentialsNotParseable, whatever "v" holds; *)
(* each codec rejects what the other codec's marshal wrote.               *)
C5_MismatchedTagRejected ==
    /\ AfterUnmarshalCandid /\ MismatchedTag(json_loads(stored), TagCandid) => NotParseable
    /\ AfterUnmarshalU1 /\ MismatchedTag(json_loads(stored), TagU1) => NotParseable
    /\ AfterUnmarshalCandid /\ origin = "marshal_u1_credentials" => NotParseable
    /\ AfterUnmarshalU1 /\ origin = "marshal_candid_credentials" => NotParseable
C5_Witness ==
    AfterUnmarshalCandid /\ origin = "marshal_u1_credentials" /\ NotParseable

(* C6: unmarshal_candid_credentials of a text that is not JSON returns    *)
(* the text itself.                                                       *)
C6_OpaqueReturned ==
    AfterUnmarshalCandid /\ ~json_loads(stored).ok => status = "ok" /\ creds = JStr(stored)
C6_Witness == AfterUnmarshalCandid /\ stored = Abc123 /\ creds = JStr(Abc123)

(* C7: unmarshal_u1_credentials of a text that is not JSON raises         *)
(* CredentialsNotParseable and returns no pair.                           *)
C7_NonJsonRejected == AfterUnmarshalU1 /\ ~json_loads(stored).ok => NotParseable
C7_Witness == AfterUnmarshalU1 /\ stored = TextNotJson /\ NotParseable

(* the case of C8: l is the decoded stored text *)
Untagged_r_d(l) ==
    AfterUnmarshalU1 /\ IsObject(l) /\ ~Has(l, K_t) /\ HasStr(l, K_r) /\ HasStr(l, K_d)
LegacyPair(l) ==
    Untagged_r_d(l) => status = "ok" /\ creds = NewPair(Get(l, K_r).s, Get(l, K_d).s)

(* C8: unmarshal_u1_credentials of a JSON object with no "t" key and      *)
(* string members "r" = R and "d" = D returns the pair (R, D).            *)
C8_LegacyPair == LegacyPair(json_loads(stored))
C8_Witness ==
    /\ Untagged_r_d(json_loads(stored))
    /\ Has(json_loads(stored), K_v)
    /\ RootOf(creds) = <<"R">>
    /\ DischargeOf(creds) = <<"D", "1">>

Decodes(l, value) == l.ok /\ l.val = value

(* C9: marshal writes the tagged format only: the text decodes to exactly *)
(* "t" = the codec's tag followed by "v" = the value, which for Ubuntu    *)
(* One is {"r": root, "d": discharge}.                                    *)
C9_TaggedFormat ==
    /\ op = "marshal_candid_credentials" =>
          Decodes(json_loads(stored),
                  JObj(<<Mem(K_t, JStr(TagCandid)), Mem(K_v, creds)>>))
    /\ op = "marshal_u1_credentials" =>
          Decodes(json_loads(stored),
                  JObj(<<Mem(K_t, JStr(TagU1)),
                         Mem(K_v, JObj(<<Mem(K_r, JStr(RootOf(creds))),
                                         Mem(K_d, JStr(DischargeOf(creds)))>>))>>))

(* a tagged Candid object whose "v" is absent, an object or an array *)
BadCandid(l) ==
    /\ AfterUnmarshalCandid /\ IsObject(l) /\ Has(l, K_t) /\ Get(l, K_t) = JStr(TagCandid)
    /\ ~Has(l, K_v) \/ Get(l, K_v).k \in {"obj", "arr"}
(* the payload of an Ubuntu One object: its "v" if tagged, else itself *)
Tagged(l) == IsObject(l) /\ Has(l, K_t) /\ Get(l, K_t) = JStr(TagU1) /\ Has(l, K_v)
Partial(payload) ==
    payload.k = "obj" /\ (~DictHas(payload.e, K_r) \/ ~DictHas(payload.e, K_d))
BadU1(l) ==
    /\ AfterUnmarshalU1 /\ IsObject(l)
    /\ IF Has(l, K_t) THEN Tagged(l) /\ Partial(Get(l, K_v)) ELSE Partial(l.val)

(* C10: a payload that fails validation is rejected: for Candid a tagged  *)
(* object whose "v" is absent, an object or an array; for Ubuntu One an   *)
(* object payload (the "v" of a tagged object, or the untagged object)    *)
(* without "r" or without "d"; a returned pair has root and discharge.    *)
C10_BadPayloadRejected ==
    /\ BadCandid(json_loads(stored)) => NotParseable
    /\ BadU1(json_loads(stored)) => NotParseable
    /\ AfterUnmarshalU1 /\ status = "ok" =>
          DictHas(creds.e, N_root) /\ DictHas(creds.e, N_discharge)
C10_Witness ==
    /\ BadU1(json_loads(stored))
    /\ Tagged(json_loads(stored))
    /\ DictHas(Get(json_loads(stored), K_v).e, K_r)
    /\ NotParseable

====
